---- MODULE Spec2Model ----
(***************************************************************************)
(* Security and compliance layer of the insurance chatbot:                 *)
(*   security.py          SecurityManager (key store, rotation, cipher)    *)
(*   hipaa_compliance.py  HIPAAComplianceManager (consent, erasure, ...)   *)
(*   app.py               init_app and the request handlers                *)
(*                                                                         *)
(* Time is a discrete clock `now`; any number of operations may happen     *)
(* within one tick, so two timestamps taken in the same tick are equal     *)
(* (SQLite's CURRENT_TIMESTAMP has a resolution of one second).            *)
(* A Fernet token is modelled as [key, text]: the key it was produced      *)
(* under and the plaintext it carries; key = NoKey is a stored value that  *)
(* is not a token (legacy plaintext).  Decrypting a value under key k      *)
(* succeeds iff the value is a token produced under k.                     *)
(* All three modules are taken to open the same queries.db.                *)
(*   analytics.py         AnalyticsEngine.load_data (safe_decrypt)         *)
(*   error_analysis.py    ErrorAnalysisManager.log_error and its alerts    *)
(* error_analysis.db is a store of its own: log_error is the action        *)
(* LogError, taken with any severity and component, which stands for every *)
(* caller of it.  SQLite's CURRENT_TIMESTAMP and datetime.now() are taken  *)
(* to be in the same time zone.                                            *)
(* An operation is one step, except where two callers are followed through *)
(* the statements of rotate_key and of log_error (RotateStore ..,           *)
(* LogErrorInsert ..): there a database transaction is one step.           *)
(***************************************************************************)
EXTENDS Integers, Sequences, FiniteSets, TLC

VARIABLES
    now,                \* wall clock, in ticks
    user_consent,       \* consent_records.db, table user_consent (row id = index)
    key_files,          \* keys/*.key in creation order (key id = index)
    key_rotation_days,  \* SecurityManager.config["key_rotation_days"]
    current_key,        \* SecurityManager.current_key
    key_rotation_date,  \* SecurityManager.key_rotation_date
    cipher,             \* app.py module global `cipher`
    running,            \* the web process is up (init_app has returned)
    queries,            \* queries.db, table queries
    next_id,            \* AUTOINCREMENT counter of table queries
    warnings,           \* safe_decrypt warnings printed by the running process
    errors,             \* error_analysis.db, table errors
    error_alerts,       \* error_analysis.db, table error_alerts
    error_patterns,     \* error_analysis.db, table error_patterns, by component
    audit_log_level,    \* SecurityManager.config["audit_log_level"]
    calls,              \* the local variables of the calls in progress, by caller
    last                \* the most recent operation: arguments, result, audit lines

vars == <<now, user_consent, key_files, key_rotation_days, current_key,
          key_rotation_date, cipher, running, queries, next_id, warnings,
          errors, error_alerts, error_patterns, audit_log_level, calls, last>>

consentVars == <<user_consent>>
keyVars == <<key_files, key_rotation_days, current_key, key_rotation_date, cipher, running>>
dataVars == <<queries, next_id>>
analyticsVars == <<warnings>>
errorVars == <<errors, error_alerts, error_patterns>>
auditVars == <<audit_log_level>>
callVars == <<calls>>

-----------------------------------------------------------------------------
(* Bounds of the model *)

MaxTime == 2
MaxConsent == 2
MaxKeys == 3
MaxRows == 2
MaxWarnings == 2
MaxErrors == 6
MaxLedgerErrors == 2
MaxTallyErrors == 3

(* Program constants.  Periods are scaled down to the clock of the model: only *)
(* their comparison with elapsed time matters to the code.                    *)

\* HIPAAComplianceManager.data_retention_days (2555 days)
data_retention_days == 1
\* SecurityManager.config["data_retention_days"] (2555 days)
config_data_retention_days == 1

\* SecurityManager._load_config default key_rotation_days (90 days)
DefaultKeyRotationDays == 3

NoKey == 0
NoDate == -1
NULL == -1

Users == {"anonymous", "u1"}
ConsentTypes == {"data_processing", "analytics"}
Reasons == {"User request"}
\* values security_config.json may give key_rotation_days
KeyRotationChoices == {1, 3}

SessionUser == "anonymous"

\* the threads of the web process that may be inside a call at the same time
Callers == {"t1", "t2"}

\* a caller that is in no call
Idle == [pc |-> "idle", old |-> 0, new |-> 0, rows |-> <<>>, sev |-> "", comp |-> "",
         seen |-> 0]
AnonymousOwner == "ANONYMIZED"

-----------------------------------------------------------------------------
(* Audit log lines written by the operation: [level, event] *)

AuditLine(level, event) == [level |-> level, event |-> event]

\* SecurityManager.log_access
LogAccess(action, success) ==
    IF success THEN AuditLine("INFO", action) ELSE AuditLine("WARNING", action)

NoOp == [op |-> "none", user |-> "", ctype |-> "", given |-> FALSE, ret |-> FALSE,
         status |-> 0, gate |-> "not_called", touched |-> {}, logged |-> <<>>]

Result(op, user, ctype, given, ret, status, gate, touched, logged) ==
    [op |-> op, user |-> user, ctype |-> ctype, given |-> given, ret |-> ret,
     status |-> status, gate |-> gate, touched |-> touched, logged |-> logged]

-----------------------------------------------------------------------------
(* HIPAAComplianceManager: consent *)

\* the rows of (u, t), as indices into the table
ConsentRows(tbl, u, t) ==
    {i \in 1..Len(tbl) : tbl[i].user_id = u /\ tbl[i].consent_type = t}

\* INSERT INTO user_consent ...: consent_timestamp DEFAULT CURRENT_TIMESTAMP,
\* withdrawal_timestamp NULL
InsertConsent(tbl, u, t, given, at) ==
    Append(tbl, [user_id |-> u, consent_type |-> t, consent_given |-> given,
                 consent_timestamp |-> at, withdrawal_timestamp |-> NULL,
                 withdrawal_reason |-> ""])

\* ORDER BY consent_timestamp DESC LIMIT 1: the rows the query may return.
\* SQL leaves the order of rows with equal sort keys unspecified.
LatestConsentRows(tbl, u, t) ==
    {i \in ConsentRows(tbl, u, t) :
        \A j \in ConsentRows(tbl, u, t) :
            tbl[j].consent_timestamp <= tbl[i].consent_timestamp}

\* check_consent, once the query has returned row r
ConsentOfRow(r, at) ==
    IF r.withdrawal_timestamp # NULL THEN FALSE
    ELSE IF at - r.consent_timestamp > data_retention_days THEN FALSE
    ELSE r.consent_given

\* check_consent: the results it can return
CheckConsentResults(tbl, u, t, at) ==
    IF ConsentRows(tbl, u, t) = {} THEN {FALSE}
    ELSE {ConsentOfRow(tbl[i], at) : i \in LatestConsentRows(tbl, u, t)}

\* stamps every record of (u, t), withdrawn before or not
WithdrawRowsAlways(tbl, u, t, reason, at) ==
    [i \in 1..Len(tbl) |->
        IF tbl[i].user_id = u /\ tbl[i].consent_type = t
        THEN [tbl[i] EXCEPT !.withdrawal_timestamp = at, !.withdrawal_reason = reason]
        ELSE tbl[i]]

\* UPDATE user_consent SET withdrawal_timestamp = ?, withdrawal_reason = ?
\* WHERE user_id = ? AND consent_type = ? AND withdrawal_timestamp IS NULL
WithdrawRows(tbl, u, t, reason, at) ==
    [i \in 1..Len(tbl) |->
        IF /\ tbl[i].user_id = u
           /\ tbl[i].consent_type = t
           /\ tbl[i].withdrawal_timestamp = NULL
        THEN [tbl[i] EXCEPT !.withdrawal_timestamp = at, !.withdrawal_reason = reason]
        ELSE tbl[i]]

\* record_consent(user_id, session_id, consent_type, consent_given)
RecordConsent(u, t, given) ==
    /\ Len(user_consent) < MaxConsent
    /\ user_consent' = InsertConsent(user_consent, u, t, given, now)
    /\ last' = Result("record_consent", u, t, given, TRUE, 0, "not_called", {},
                      <<LogAccess(IF given THEN "consent_granted" ELSE "consent_denied", TRUE)>>)
    /\ UNCHANGED <<now, analyticsVars, errorVars, auditVars, callVars, keyVars, dataVars>>

\* withdraw_consent(user_id, consent_type, reason)
WithdrawConsent(u, t, reason) ==
    /\ user_consent' = WithdrawRows(user_consent, u, t, reason, now)
    /\ last' = Result("withdraw_consent", u, t, FALSE, TRUE, 0, "not_called", {},
                      <<LogAccess("consent_withdrawn", TRUE)>>)
    /\ UNCHANGED <<now, analyticsVars, errorVars, auditVars, callVars, keyVars, dataVars>>

\* withdraws the data_processing records only
WithdrawAllRowsOfProcessing(tbl, u, reason, at) ==
    [i \in 1..Len(tbl) |->
        IF /\ tbl[i].user_id = u
           /\ tbl[i].consent_type = "data_processing"
           /\ tbl[i].withdrawal_timestamp = NULL
        THEN [tbl[i] EXCEPT !.withdrawal_timestamp = at, !.withdrawal_reason = reason]
        ELSE tbl[i]]

\* UPDATE user_consent SET withdrawal_timestamp = ?, withdrawal_reason = ?
\* WHERE user_id = ? AND withdrawal_timestamp IS NULL   (delete_user_data)
WithdrawAllRows(tbl, u, reason, at) ==
    [i \in 1..Len(tbl) |->
        IF tbl[i].user_id = u /\ tbl[i].withdrawal_timestamp = NULL
        THEN [tbl[i] EXCEPT !.withdrawal_timestamp = at, !.withdrawal_reason = reason]
        ELSE tbl[i]]

\* DELETE FROM queries WHERE user_id = ?
DeleteRowsOf(tbl, u) == SelectSeq(tbl, LAMBDA row : row.user_id # u)

RowIdsOf(tbl, u) == {tbl[i].id : i \in {j \in 1..Len(tbl) : tbl[j].user_id = u}}

\* delete_user_data: the deletion_log it returns
DeleteReport(rows, u) ==
    [success |-> TRUE,
     data_categories |-> IF RowIdsOf(rows, u) # {}
                         THEN <<[category |-> "chat_data",
                                 records |-> Cardinality(RowIdsOf(rows, u))]>>
                         ELSE <<>>,
     retention_exceptions |-> <<"consent_records: retained for compliance">>]

\* delete_user_data(user_id, deletion_type, reason)
DeleteUserData(u, reason) ==
    /\ queries' = DeleteRowsOf(queries, u)
    /\ user_consent' = WithdrawAllRows(user_consent, u, "Data deletion", now)
    /\ last' = Result("delete_user_data", u, "", FALSE, TRUE, 0, "not_called",
                      RowIdsOf(queries, u), <<LogAccess("data_deletion", TRUE)>>)
    /\ UNCHANGED <<now, analyticsVars, errorVars, auditVars, callVars, keyVars, next_id>>

\* the statements of delete_user_data that may raise: the DELETE on queries.db,
\* the UPDATE of user_consent, the INSERT INTO data_deletion_log
DeleteFailures == {"queries_error", "consent_error", "deletion_log_error"}

\* delete_user_data when one of its statements raises: each of the three
\* `with sqlite3.connect(...)` blocks commits when it is left, so the blocks
\* before the failing one are kept; the except branch returns success = False
DeleteUserDataFails(u, reason, io) ==
    /\ queries' = IF io = "queries_error" THEN queries ELSE DeleteRowsOf(queries, u)
    /\ user_consent' = IF io = "deletion_log_error"
                       THEN WithdrawAllRows(user_consent, u, "Data deletion", now)
                       ELSE user_consent
    /\ last' = Result("delete_user_data", u, "", FALSE, FALSE, 0, "not_called",
                      IF io = "queries_error" THEN {} ELSE RowIdsOf(queries, u),
                      <<LogAccess("data_deletion_error", FALSE)>>)
    /\ UNCHANGED <<now, analyticsVars, errorVars, auditVars, callVars, keyVars, next_id>>

\* check_consent(user_id, consent_type)
CheckConsent(u, t) ==
    /\ \E r \in CheckConsentResults(user_consent, u, t, now) :
          last' = Result("check_consent", u, t, FALSE, r, 0, "not_called", {}, <<>>)
    /\ UNCHANGED <<now, analyticsVars, errorVars, auditVars, callVars, consentVars, keyVars, dataVars>>

\* the clock advances
Tick ==
    /\ now < MaxTime
    /\ now' = now + 1
    /\ last' = NoOp
    /\ UNCHANGED <<consentVars, keyVars, dataVars, analyticsVars, errorVars, auditVars, callVars>>

-----------------------------------------------------------------------------
(* Fernet *)

\* Fernet(k).encrypt(text): a token under k
Encrypt(k, text) == [key |-> k, text |-> text]

\* a stored string that is no token
Plain(text) == [key |-> NoKey, text |-> text]

\* Fernet(k).decrypt(v) returns (does not raise InvalidToken)
Decryptable(k, v) == k # NoKey /\ v.key = k

-----------------------------------------------------------------------------
(* SecurityManager: key store *)

\* store_key_securely: keys/<uuid>.key with created_at = now,
\* expires_at = now + key_rotation_days
StoreKey(files, at, days) ==
    Append(files, [created_at |-> at, expires_at |-> at + days])

\* load_current_key: the newest key file only; none when there is no file, when
\* reading fails (the exception is caught) or when that key is expired
LoadCurrentKey(files, at, io) ==
    IF files = <<>>
    THEN [key |-> NoKey, date |-> NoDate, logged |-> <<>>]
    ELSE IF io = "load_error"
    THEN [key |-> NoKey, date |-> NoDate,
          logged |-> <<AuditLine("ERROR", "Error loading encryption key")>>]
    ELSE IF at > files[Len(files)].expires_at
    THEN [key |-> NoKey, date |-> NoDate,
          logged |-> <<AuditLine("WARNING", "Encryption key has expired")>>]
    ELSE [key |-> Len(files), date |-> files[Len(files)].expires_at, logged |-> <<>>]

\* get_cipher on a manager that holds no key: load, and generate and store a key
\* when the load gave none; storing may raise
GetCipher(files, at, days, io) ==
    LET ld == LoadCurrentKey(files, at, io) IN
    IF ld.key # NoKey
    THEN [raised |-> FALSE, key |-> ld.key, date |-> ld.date, files |-> files,
          logged |-> ld.logged]
    ELSE IF io = "store_error"
    THEN [raised |-> TRUE, key |-> NoKey, date |-> NoDate, files |-> files,
          logged |-> ld.logged]
    ELSE [raised |-> FALSE, key |-> Len(files) + 1, date |-> NoDate,
          files |-> StoreKey(files, at, days),
          logged |-> ld.logged \o <<AuditLine("INFO", "New encryption key created")>>]

\* one row of _reencrypt_all_data's loop: decrypt under the old key (or take the
\* stored strings as plain text when there is no old key), encrypt under the new
\* key, update; an exception leaves the row as it is
RowReencryptable(row, old) ==
    old = NoKey \/ (Decryptable(old, row.query) /\ Decryptable(old, row.answer))

\* re-encrypts the query and leaves the answer under the old key
ReencryptRowQueryOnly(row, old, new) ==
    IF RowReencryptable(row, old)
    THEN [row EXCEPT !.query = Encrypt(new, row.query.text)]
    ELSE row

ReencryptRow(row, old, new) ==
    IF old = NoKey
    THEN [row EXCEPT !.query = Encrypt(new, IF row.query.key = NoKey THEN row.query.text ELSE row.query),
                     !.answer = Encrypt(new, IF row.answer.key = NoKey THEN row.answer.text ELSE row.answer)]
    ELSE IF RowReencryptable(row, old)
    THEN [row EXCEPT !.query = Encrypt(new, row.query.text),
                     !.answer = Encrypt(new, row.answer.text)]
    ELSE row

\* _reencrypt_all_data
ReencryptAllData(rows, old, new) ==
    [i \in 1..Len(rows) |-> ReencryptRow(rows[i], old, new)]

ReencryptErrors(rows, old) ==
    {rows[i].id : i \in {j \in 1..Len(rows) : ~RowReencryptable(rows[j], old)}}

\* the audit lines of the loop: one error line for each row that raised
RowErrorLines(rows, old) ==
    [i \in 1..Cardinality(ReencryptErrors(rows, old)) |->
        AuditLine("ERROR", "Error re-encrypting row")]

\* rotates only once the deadline has passed
RotationDueStrict(date, at) == date # NoDate /\ at > date

\* rotate_key_if_needed is about to call rotate_key
RotationDue(date, at) == date # NoDate /\ at >= date

\* rotate_key_if_needed on memory (key, date): what it returns and leaves behind
RotateKeyIfNeededOp(key, date, files, rows, at, days, io) ==
    IF ~RotationDue(date, at)
    THEN [ret |-> FALSE, key |-> key, date |-> date, files |-> files, rows |-> rows,
          skipped |-> {}, logged |-> <<>>]
    ELSE IF io = "store_error"
    THEN [ret |-> FALSE, key |-> key, date |-> date, files |-> files, rows |-> rows,
          skipped |-> {},
          logged |-> <<AuditLine("INFO", "Performing scheduled key rotation"),
                       AuditLine("ERROR", "Key rotation failed")>>]
    ELSE IF io = "db_error"
    THEN [ret |-> FALSE, key |-> key, date |-> date,
          files |-> StoreKey(files, at, days), rows |-> rows, skipped |-> {},
          logged |-> <<AuditLine("INFO", "Performing scheduled key rotation"),
                       AuditLine("INFO", "New encryption key created"),
                       AuditLine("ERROR", "Key rotation failed")>>]
    ELSE [ret |-> TRUE, key |-> Len(files) + 1, date |-> at + days,
          files |-> StoreKey(files, at, days),
          rows |-> ReencryptAllData(rows, key, Len(files) + 1),
          skipped |-> ReencryptErrors(rows, key),
          logged |-> <<AuditLine("INFO", "Performing scheduled key rotation"),
                       AuditLine("INFO", "New encryption key created")>>
                     \o RowErrorLines(rows, key)
                     \o <<AuditLine("INFO", "Key rotation completed")>>]

\* deletes the records at the cutoff as well
RetainedRowsInclusive(rows, at) ==
    SelectSeq(rows, LAMBDA row : ~(row.timestamp <= at - config_data_retention_days))

\* check_data_retention: DELETE FROM queries WHERE timestamp < now - retention
RetainedRows(rows, at) ==
    SelectSeq(rows, LAMBDA row : ~(row.timestamp < at - config_data_retention_days))

IoOutcomes == {"ok", "load_error", "store_error"}
RotationIoOutcomes == {"ok", "store_error", "db_error"}

\* rotate_key_if_needed(), called on the running manager
RotateKeyIfNeeded(io) ==
    /\ running
    /\ RotationDue(key_rotation_date, now) => Len(key_files) < MaxKeys
    /\ ~RotationDue(key_rotation_date, now) => io = "ok"
    /\ LET r == RotateKeyIfNeededOp(current_key, key_rotation_date, key_files, queries,
                                    now, key_rotation_days, io) IN
        /\ current_key' = r.key
        /\ key_rotation_date' = r.date
        /\ key_files' = r.files
        /\ queries' = r.rows
        /\ last' = Result("rotate_key_if_needed", "", "", FALSE, r.ret, 0, "not_called",
                          r.skipped, r.logged)
    /\ UNCHANGED <<now, analyticsVars, errorVars, auditVars, callVars, consentVars, key_rotation_days, cipher, running, next_id>>

\* the rows the loop of _reencrypt_all_data has updated after its first k rows
UpdatedRows(rows, old, k) ==
    {rows[i].id : i \in {j \in 1..k : RowReencryptable(rows[j], old)}}

\* a due rotation during which the process ends after the loop of
\* _reencrypt_all_data has handled k rows: the new key file is written, the
\* UPDATEs belong to one transaction whose only commit follows the loop, so
\* none of them is kept; the manager's memory is gone with the process
RotateKeyInterrupted(k) ==
    /\ running
    /\ RotationDue(key_rotation_date, now)
    /\ Len(key_files) < MaxKeys
    /\ k \in 1..Len(queries)
    /\ key_files' = StoreKey(key_files, now, key_rotation_days)
    /\ queries' = queries
    /\ running' = FALSE
    /\ current_key' = NoKey
    /\ key_rotation_date' = NoDate
    /\ cipher' = NoKey
    /\ last' = Result("rotate_key_interrupted", "", "", FALSE, FALSE, 0, "not_called",
                      UpdatedRows(queries, current_key, k),
                      <<AuditLine("INFO", "Performing scheduled key rotation"),
                        AuditLine("INFO", "New encryption key created")>>)
    /\ UNCHANGED <<now, analyticsVars, errorVars, auditVars, callVars, consentVars,
                   key_rotation_days, next_id>>

\* rotate_key_if_needed and rotate_key take no lock: a call is a sequence of
\* steps, and the steps of two callers on the one manager may interleave.
\* First step: the deadline test, generate_secure_key and store_key_securely.
RotateStore(c) ==
    /\ running
    /\ calls[c].pc = "idle"
    /\ RotationDue(key_rotation_date, now)
    /\ Len(key_files) < MaxKeys
    /\ key_files' = StoreKey(key_files, now, key_rotation_days)
    /\ calls' = [calls EXCEPT ![c] = [Idle EXCEPT !.pc = "stored",
                                                  !.new = Len(key_files) + 1]]
    /\ last' = NoOp
    /\ UNCHANGED <<now, analyticsVars, errorVars, auditVars, consentVars,
                   key_rotation_days, current_key, key_rotation_date, cipher, running,
                   dataVars>>

\* _reencrypt_all_data, first part: old_cipher = Fernet(self.current_key) and
\* SELECT id, query, answer FROM queries; fetchall()
RotateRead(c) ==
    /\ calls[c].pc = "stored"
    /\ calls' = [calls EXCEPT ![c].pc = "read", ![c].old = current_key,
                              ![c].rows = queries]
    /\ last' = NoOp
    /\ UNCHANGED <<now, analyticsVars, errorVars, auditVars, consentVars, keyVars,
                   dataVars>>

\* the row of the fetched rows with this id, as a set
FetchedRow(rows, id) == {rows[j] : j \in {k \in 1..Len(rows) : rows[k].id = id}}

\* the UPDATEs of the loop, computed from the fetched rows and keyed by id
WriteBack(tbl, rows, old, new) ==
    [i \in 1..Len(tbl) |->
        IF \E r \in FetchedRow(rows, tbl[i].id) : RowReencryptable(r, old)
        THEN LET r == CHOOSE r \in FetchedRow(rows, tbl[i].id) : TRUE IN
             [tbl[i] EXCEPT !.query = ReencryptRow(r, old, new).query,
                            !.answer = ReencryptRow(r, old, new).answer]
        ELSE tbl[i]]

\* _reencrypt_all_data, second part: the loop's UPDATEs and conn.commit(), one
\* write transaction of queries.db
RotateWrite(c) ==
    /\ calls[c].pc = "read"
    /\ queries' = WriteBack(queries, calls[c].rows, calls[c].old, calls[c].new)
    /\ calls' = [calls EXCEPT ![c].pc = "written"]
    /\ last' = NoOp
    /\ UNCHANGED <<now, analyticsVars, errorVars, auditVars, consentVars, keyVars,
                   next_id>>

\* rotate_key, last part: self.current_key = new_key, the new deadline, return True
RotateFinish(c) ==
    /\ calls[c].pc = "written"
    /\ current_key' = calls[c].new
    /\ key_rotation_date' = now + key_rotation_days
    /\ calls' = [calls EXCEPT ![c] = Idle]
    /\ last' = Result("rotate_key_if_needed", "", "", FALSE, TRUE, 0, "not_called",
                      ReencryptErrors(calls[c].rows, calls[c].old),
                      <<AuditLine("INFO", "Key rotation completed")>>)
    /\ UNCHANGED <<now, analyticsVars, errorVars, auditVars, consentVars, key_files,
                   key_rotation_days, cipher, running, dataVars>>

\* process start: SecurityManager() is constructed, then init_app() runs
\* rotate_key_if_needed, check_data_retention and get_cipher; cipher = init_app()
StartApp(days, io) ==
    /\ ~running
    /\ key_rotation_days' = days
    /\ warnings' = 0
    /\ LET rot == RotateKeyIfNeededOp(NoKey, NoDate, key_files, queries, now, days, "ok")
           kept == RetainedRows(rot.rows, now)
           gc == GetCipher(rot.files, now, days, io)
       IN
        /\ io = "load_error" => key_files # <<>>
        /\ io = "store_error" => LoadCurrentKey(rot.files, now, io).key = NoKey
        /\ Len(gc.files) <= MaxKeys
        /\ queries' = kept
        /\ key_files' = gc.files
        /\ IF gc.raised
           THEN /\ running' = FALSE
                /\ current_key' = NoKey
                /\ key_rotation_date' = NoDate
                /\ cipher' = NoKey
           ELSE /\ running' = TRUE
                /\ current_key' = gc.key
                /\ key_rotation_date' = gc.date
                /\ cipher' = gc.key
        /\ last' = Result("init_app", "", "", FALSE, ~gc.raised, 0, "not_called",
                          {}, rot.logged \o gc.logged)
    /\ UNCHANGED <<now, errorVars, auditVars, callVars, consentVars, next_id>>

\* the process ends: the manager's memory, the module global and the calls in
\* progress are gone
StopApp ==
    /\ running
    /\ running' = FALSE
    /\ current_key' = NoKey
    /\ key_rotation_date' = NoDate
    /\ cipher' = NoKey
    /\ calls' = [c \in Callers |-> Idle]
    /\ last' = NoOp
    /\ UNCHANGED <<now, analyticsVars, errorVars, auditVars, consentVars, key_files, key_rotation_days, dataVars>>

-----------------------------------------------------------------------------
(* app.py: request handlers.  session['user_id'] is never set, so every       *)
(* request runs as SessionUser.  Texts are sequences of words.                *)

ChatInputs == {<<"hello">>, <<"my", "SSN">>, <<>>, <<"x", ";">>}

DangerousPatterns == {"'", "\"", ";", "--", "/*", "*/", "xp_", "sp_"}

\* accepts every input
ValidateInputLenient(q) == TRUE

\* validate_input: empty input and input holding a dangerous pattern are refused
ValidateInput(q) ==
    /\ q # <<>>
    /\ \A i \in 1..Len(q) : q[i] \notin DangerousPatterns

\* chatbot.answer_query, an opaque collaborator
AnswerQuery(q) == <<"re">> \o q

\* SecurityManager.anonymize_data: fixed substitutions
ScrubWord(w) ==
    CASE w = "SSN" -> "XXX-XX-XXXX"
      [] w = "DOB" -> "XX/XX/XXXX"
      [] w = "phone" -> "XXX-XXX-XXXX"
      [] OTHER -> w

Scrub(text) == [i \in 1..Len(text) |-> ScrubWord(text[i])]

\* INSERT INTO queries (query, answer, timestamp, user_id, ...)
InsertQuery(rows, id, q, a, at, u) ==
    Append(rows, [id |-> id, query |-> q, answer |-> a, timestamp |-> at, user_id |-> u])

\* stores the scrubbed text instead of the text
StoredFieldScrubbed(c, text) ==
    IF c # NoKey THEN Encrypt(c, Scrub(text)) ELSE Plain(Scrub(text))

\* chat(): the fields as stored, encrypted with the module global cipher
StoredField(c, text) == IF c # NoKey THEN Encrypt(c, text) ELSE Plain(text)

\* POST /chat
Chat(q, answer_ok) ==
    /\ running
    /\ IF ~ValidateInput(q)
       THEN /\ answer_ok
            /\ last' = Result("chat", SessionUser, "", FALSE, FALSE, 400, "not_called", {},
                              <<LogAccess("chat_query", FALSE)>>)
            /\ UNCHANGED dataVars
       ELSE \E c \in CheckConsentResults(user_consent, SessionUser, "data_processing", now) :
            IF ~c
            THEN /\ answer_ok
                 /\ last' = Result("chat", SessionUser, "", FALSE, FALSE, 403, "false", {},
                                   <<LogAccess("consent_required", FALSE)>>)
                 /\ UNCHANGED dataVars
            ELSE IF ~answer_ok
            THEN /\ last' = Result("chat", SessionUser, "", FALSE, FALSE, 500, "true", {},
                                   <<LogAccess("chat_query", TRUE),
                                     LogAccess("chat_error", FALSE)>>)
                 /\ UNCHANGED dataVars
            ELSE /\ next_id <= MaxRows
                 /\ queries' = InsertQuery(queries, next_id, StoredField(cipher, q),
                                           StoredField(cipher, AnswerQuery(q)), now,
                                           SessionUser)
                 /\ next_id' = next_id + 1
                 /\ last' = Result("chat", SessionUser, "", FALSE, TRUE, 200, "true",
                                   {next_id},
                                   <<LogAccess("chat_query", TRUE),
                                     LogAccess("query_processed", TRUE)>>)
    /\ UNCHANGED <<now, analyticsVars, errorVars, auditVars, callVars, consentVars, keyVars>>

\* export_user_data: the rows whose two fields decrypt under the manager's key
\* (the others are exported as "[ENCRYPTED]")
ExportDecrypted(rows, u, k) ==
    {rows[i].id : i \in {j \in 1..Len(rows) :
        /\ rows[j].user_id = u
        /\ Decryptable(k, rows[j].query)
        /\ Decryptable(k, rows[j].answer)}}

\* GET /privacy/export
ExportUserData ==
    /\ running
    /\ \E c \in CheckConsentResults(user_consent, SessionUser, "data_processing", now) :
        IF ~c
        THEN last' = Result("export_user_data", SessionUser, "", FALSE, FALSE, 403,
                            "false", {}, <<>>)
        ELSE last' = Result("export_user_data", SessionUser, "", FALSE, TRUE, 200, "true",
                            ExportDecrypted(queries, SessionUser, current_key),
                            <<LogAccess("data_export", TRUE)>>)
    /\ UNCHANGED <<now, analyticsVars, errorVars, auditVars, callVars, consentVars, keyVars, dataVars>>

\* anonymize_data, one row: decrypt, scrub, re-encrypt, reassign the owner;
\* an exception leaves the row as it is
RowAnonymizable(row, u, k) ==
    row.user_id = u /\ Decryptable(k, row.query) /\ Decryptable(k, row.answer)

AnonymizeRow(row, u, k) ==
    IF RowAnonymizable(row, u, k)
    THEN [row EXCEPT !.query = Encrypt(k, Scrub(row.query.text)),
                     !.answer = Encrypt(k, Scrub(row.answer.text)),
                     !.user_id = AnonymousOwner]
    ELSE row

\* gives up the whole run when one record of the user fails
AnonymizeRowsAtomic(rows, u, k) ==
    IF \E i \in 1..Len(rows) : rows[i].user_id = u /\ ~RowAnonymizable(rows[i], u, k)
    THEN rows
    ELSE [i \in 1..Len(rows) |-> AnonymizeRow(rows[i], u, k)]

\* anonymize_data's loop
AnonymizeRows(rows, u, k) == [i \in 1..Len(rows) |-> AnonymizeRow(rows[i], u, k)]

\* POST /privacy/anonymize -> hipaa_manager.anonymize_data(user_id)
AnonymizeUserData ==
    /\ running
    /\ queries' = AnonymizeRows(queries, SessionUser, current_key)
    /\ last' = Result("anonymize_user_data", SessionUser, "", FALSE, TRUE, 200,
                      "not_called",
                      {queries[i].id : i \in {j \in 1..Len(queries) :
                          RowAnonymizable(queries[j], SessionUser, current_key)}},
                      <<LogAccess("data_anonymization", TRUE)>>)
    /\ UNCHANGED <<now, analyticsVars, errorVars, auditVars, callVars, consentVars, keyVars, next_id>>

\* PUT /privacy/consent, DELETE /privacy/consent, POST /privacy/delete
PutConsent(t, given) == running /\ RecordConsent(SessionUser, t, given)
DeleteConsent(t, reason) == running /\ WithdrawConsent(SessionUser, t, reason)
PostDelete(reason) == running /\ DeleteUserData(SessionUser, reason)
PostDeleteFails(reason, io) == running /\ DeleteUserDataFails(SessionUser, reason, io)

-----------------------------------------------------------------------------
(* analytics.py: AnalyticsEngine.load_data, and the retention purge *)

\* the prefix by which safe_decrypt recognizes a Fernet token
Marker == "gAAAAAB"

\* encrypted_text.startswith('gAAAAAB'): every token carries the prefix, and so
\* does a plain string whose first word is the prefix
Marked(v) == v.key # NoKey \/ (v.text # <<>> /\ v.text[1] = Marker)

DecryptionError == <<"[DECRYPTION_ERROR]">>

\* always attempts the decryption, whatever the prefix
SafeDecryptAlways(k, v) ==
    IF Decryptable(k, v)
    THEN [value |-> v.text, failed |-> FALSE]
    ELSE [value |-> DecryptionError, failed |-> TRUE]

\* safe_decrypt(encrypted_text) with the engine's cipher k: the value returned and
\* whether the except branch was taken
SafeDecrypt(k, v) ==
    IF Marked(v)
    THEN IF Decryptable(k, v)
         THEN [value |-> v.text, failed |-> FALSE]
         ELSE [value |-> DecryptionError, failed |-> TRUE]
    ELSE [value |-> v.text, failed |-> FALSE]

\* the rows on which safe_decrypt takes its except branch
DecryptFailures(rows, k) ==
    {rows[i].id : i \in {j \in 1..Len(rows) :
        SafeDecrypt(k, rows[j].query).failed \/ SafeDecrypt(k, rows[j].answer).failed}}

\* load_data's frame: each field decrypted, then anonymized for analytics
LoadedRows(rows, k) ==
    [i \in 1..Len(rows) |->
        [id |-> rows[i].id,
         query |-> Scrub(SafeDecrypt(k, rows[i].query).value),
         answer |-> Scrub(SafeDecrypt(k, rows[i].answer).value)]]

\* GET /analytics: AnalyticsEngine() takes security_manager.get_cipher(), then
\* load_data() defines safe_decrypt anew and applies it to both columns; the
\* warning flag is an attribute of that function object
LoadData ==
    /\ running
    /\ warnings < MaxWarnings
    /\ warnings' = IF DecryptFailures(queries, current_key) # {}
                   THEN warnings + 1 ELSE warnings
    /\ last' = Result("load_data", "", "", FALSE, TRUE, 200, "not_called",
                      DecryptFailures(queries, current_key), <<>>)
    /\ UNCHANGED <<now, errorVars, auditVars, callVars, consentVars, keyVars, dataVars>>

\* SELECT COUNT(*) FROM queries WHERE timestamp < cutoff
ExpiredCount(rows, at) ==
    Len(SelectSeq(rows, LAMBDA row : row.timestamp < at - config_data_retention_days))

\* security_manager.check_data_retention(); `status` carries the returned count
CheckDataRetention ==
    /\ running
    /\ queries' = IF ExpiredCount(queries, now) > 0
                  THEN RetainedRows(queries, now) ELSE queries
    /\ last' = Result("check_data_retention", "", "", FALSE, TRUE,
                      ExpiredCount(queries, now), "not_called",
                      {queries[i].id : i \in {j \in 1..Len(queries) :
                          queries[j].timestamp < now - config_data_retention_days}},
                      IF ExpiredCount(queries, now) > 0
                      THEN <<AuditLine("INFO", "Deleted expired records")>> ELSE <<>>)
    /\ UNCHANGED <<now, analyticsVars, errorVars, auditVars, callVars, consentVars, keyVars, next_id>>

-----------------------------------------------------------------------------
(* error_analysis.py: ErrorAnalysisManager.  In this part a tick is an hour. *)

Severities == {"critical", "high", "medium"}
Components == {"chatbot", "chat_interface"}

\* self.alert_thresholds
AlertThreshold(sev) ==
    CASE sev = "critical" -> 1
      [] sev = "high" -> 5
      [] sev = "medium" -> 20
      [] sev = "low" -> 100
      [] OTHER -> 100

\* timedelta(hours=1)
AlertWindow == 1

\* hours in a calendar day, scaled down to the clock of the model
TicksPerDay == 2

\* the calendar date of a timestamp
DateOf(t) == t \div TicksPerDay

\* `timestamp > ?` as SQLite evaluates it: errors.timestamp is CURRENT_TIMESTAMP
\* text ('YYYY-MM-DD HH:MM:SS') and the parameter is since_time.isoformat()
\* ('YYYY-MM-DDTHH:MM:SS.ffffff'); the texts are compared character by character,
\* so the dates decide, and on equal dates ' ' sorts before 'T'
TimestampTextAfter(ts, since) == DateOf(ts) > DateOf(since)

\* SELECT COUNT(*) FROM errors WHERE severity = ? AND timestamp > ?
CountRecentErrors(tbl, sev, at) ==
    Cardinality({i \in 1..Len(tbl) :
        /\ tbl[i].severity = sev
        /\ TimestampTextAfter(tbl[i].timestamp, at - AlertWindow)})

\* _check_alert_conditions(severity, component)
CheckAlertConditions(alerts, tbl, sev, comp, at) ==
    IF CountRecentErrors(tbl, sev, at) >= AlertThreshold(sev)
    THEN Append(alerts, [alert_type |-> "high_error_rate", severity |-> sev,
                         error_count |-> CountRecentErrors(tbl, sev, at),
                         component |-> comp, timestamp |-> at,
                         acknowledged |-> FALSE, acknowledged_at |-> NULL,
                         acknowledged_by |-> ""])
    ELSE alerts

\* INSERT INTO errors (...): resolved DEFAULT FALSE
InsertError(tbl, sev, comp, at) ==
    Append(tbl, [severity |-> sev, component |-> comp, timestamp |-> at,
                 resolved |-> FALSE, resolution_notes |-> "", resolved_at |-> NULL,
                 resolved_by |-> ""])

\* no row of error_patterns for the component yet
NoPattern == [occurrence_count |-> 0, first_seen |-> NULL, last_seen |-> NULL]

\* restarts the count at 1 and keeps last_seen
UpdateErrorPatternsRestart(pats, comp, at) ==
    [pats EXCEPT ![comp] =
        IF @.occurrence_count > 0
        THEN [@ EXCEPT !.occurrence_count = 1]
        ELSE [occurrence_count |-> 1, first_seen |-> at, last_seen |-> at]]

\* _update_error_patterns: one pattern per (error_type, component, message); the
\* model has one error type and message per component
UpdateErrorPatterns(pats, comp, at) ==
    [pats EXCEPT ![comp] =
        IF @.occurrence_count > 0
        THEN [@ EXCEPT !.occurrence_count = @ + 1, !.last_seen = at]
        ELSE [occurrence_count |-> 1, first_seen |-> at, last_seen |-> at]]

\* log_error(error, component, severity): INSERT INTO errors, then
\* _update_error_patterns, then _check_alert_conditions
LogError(sev, comp) ==
    /\ Len(errors) < MaxErrors
    /\ errors' = InsertError(errors, sev, comp, now)
    /\ error_patterns' = UpdateErrorPatterns(error_patterns, comp, now)
    /\ error_alerts' = CheckAlertConditions(error_alerts, errors', sev, comp, now)
    /\ last' = Result("log_error", "", "", FALSE, TRUE, 0, "not_called", {},
                      <<AuditLine("ERROR", "Error logged")>>)
    /\ UNCHANGED <<now, analyticsVars, auditVars, callVars, consentVars, keyVars, dataVars>>

\* log_error takes no lock either, and each of its statements on
\* error_analysis.db is a transaction of its own.  First step: INSERT INTO errors.
LogErrorInsert(c, sev, comp) ==
    /\ calls[c].pc = "idle"
    /\ Len(errors) < MaxTallyErrors
    /\ errors' = InsertError(errors, sev, comp, now)
    /\ calls' = [calls EXCEPT ![c] = [Idle EXCEPT !.pc = "inserted", !.sev = sev,
                                                  !.comp = comp]]
    /\ last' = NoOp
    /\ UNCHANGED <<now, error_alerts, error_patterns, analyticsVars, auditVars,
                   consentVars, keyVars, dataVars>>

\* _update_error_patterns: SELECT occurrence_count ... fetchone()
LogErrorReadPattern(c) ==
    /\ calls[c].pc = "inserted"
    /\ calls' = [calls EXCEPT ![c].pc = "read",
                              ![c].seen = error_patterns[calls[c].comp].occurrence_count]
    /\ last' = NoOp
    /\ UNCHANGED <<now, errorVars, analyticsVars, auditVars, consentVars, keyVars,
                   dataVars>>

\* the UPDATE with the count that was read plus one, or the INSERT of a new
\* pattern, which violates UNIQUE(pattern_hash) when the pattern exists by now
\* (the exception is caught and the pattern left as it is)
WritePattern(pats, comp, seen, at) ==
    [pats EXCEPT ![comp] =
        IF seen > 0
        THEN [@ EXCEPT !.occurrence_count = seen + 1, !.last_seen = at]
        ELSE IF @.occurrence_count > 0
        THEN @
        ELSE [occurrence_count |-> 1, first_seen |-> at, last_seen |-> at]]

\* _update_error_patterns, the write; then _check_alert_conditions and return
LogErrorWritePattern(c) ==
    /\ calls[c].pc = "read"
    /\ error_patterns' = WritePattern(error_patterns, calls[c].comp, calls[c].seen, now)
    /\ error_alerts' = CheckAlertConditions(error_alerts, errors, calls[c].sev,
                                            calls[c].comp, now)
    /\ calls' = [calls EXCEPT ![c] = Idle]
    /\ last' = Result("log_error", "", "", FALSE, TRUE, 0, "not_called", {},
                      <<AuditLine("ERROR", "Error logged")>>)
    /\ UNCHANGED <<now, errors, analyticsVars, auditVars, consentVars, keyVars,
                   dataVars>>

\* the places at which error_analysis.db can fail during log_error
StoreFailures == {"insert_error", "pattern_error", "alert_error"}

\* lets the failure of the INSERT escape to the caller
LogErrorOutcomeUncaught(io) ==
    IF io = "insert_error"
    THEN [raised |-> TRUE, logged |-> <<>>]
    ELSE [raised |-> FALSE, logged |-> <<AuditLine("ERROR", "Error logged")>>]

\* log_error when the store fails: whether it raises, and what it writes to
\* logs/error_analysis.log; each of the three steps has its own except branch
LogErrorOutcome(io) ==
    CASE io = "insert_error" ->
            [raised |-> FALSE,
             logged |-> <<AuditLine("CRITICAL", "Failed to log error")>>]
      [] io = "pattern_error" ->
            [raised |-> FALSE,
             logged |-> <<AuditLine("ERROR", "Failed to update error patterns"),
                          AuditLine("ERROR", "Error logged")>>]
      [] io = "alert_error" ->
            [raised |-> FALSE,
             logged |-> <<AuditLine("ERROR", "Failed to check alert conditions"),
                          AuditLine("ERROR", "Error logged")>>]
      [] OTHER -> [raised |-> FALSE, logged |-> <<AuditLine("ERROR", "Error logged")>>]

\* log_error(error, component, severity) with a failure of the store at `io`
LogErrorStoreFailure(sev, comp, io) ==
    /\ Len(errors) < MaxErrors
    /\ errors' = IF io = "insert_error" THEN errors
                 ELSE InsertError(errors, sev, comp, now)
    /\ error_patterns' = IF io = "alert_error"
                         THEN UpdateErrorPatterns(error_patterns, comp, now)
                         ELSE error_patterns
    /\ error_alerts' = IF io = "pattern_error"
                       THEN CheckAlertConditions(error_alerts, errors', sev, comp, now)
                       ELSE error_alerts
    /\ last' = Result("log_error", "", "", FALSE, ~LogErrorOutcome(io).raised,
                      IF LogErrorOutcome(io).raised THEN 500 ELSE 0, "not_called", {},
                      LogErrorOutcome(io).logged)
    /\ UNCHANGED <<now, analyticsVars, auditVars, callVars, consentVars, keyVars, dataVars>>

\* UPDATE errors SET resolved = TRUE, resolution_notes = ?, resolved_at =
\* CURRENT_TIMESTAMP, resolved_by = ? WHERE error_id = ?
ResolveRows(tbl, id, notes, by, at) ==
    [i \in 1..Len(tbl) |->
        IF i = id
        THEN [tbl[i] EXCEPT !.resolved = TRUE, !.resolution_notes = notes,
                            !.resolved_at = at, !.resolved_by = by]
        ELSE tbl[i]]

\* resolve_error(error_id, resolution_notes, resolved_by)
ResolveError(id, notes, by) ==
    /\ errors' = ResolveRows(errors, id, notes, by, now)
    /\ last' = Result("resolve_error", by, "", FALSE, TRUE, 0, "not_called", {id},
                      <<AuditLine("INFO", "Error resolved")>>)
    /\ UNCHANGED <<now, error_alerts, error_patterns, analyticsVars, auditVars, callVars,
                   consentVars, keyVars, dataVars>>

\* UPDATE error_alerts SET acknowledged = TRUE, acknowledged_at =
\* CURRENT_TIMESTAMP, acknowledged_by = ? WHERE id = ?
AcknowledgeRows(tbl, id, by, at) ==
    [i \in 1..Len(tbl) |->
        IF i = id
        THEN [tbl[i] EXCEPT !.acknowledged = TRUE, !.acknowledged_at = at,
                            !.acknowledged_by = by]
        ELSE tbl[i]]

\* acknowledge_alert(alert_id, acknowledged_by)
AcknowledgeAlert(id, by) ==
    /\ error_alerts' = AcknowledgeRows(error_alerts, id, by, now)
    /\ last' = Result("acknowledge_alert", by, "", FALSE, TRUE, 0, "not_called", {id},
                      <<AuditLine("INFO", "Alert acknowledged")>>)
    /\ UNCHANGED <<now, errors, error_patterns, analyticsVars, auditVars, callVars,
                   consentVars, keyVars, dataVars>>

\* returns every alert, acknowledged or not
ActiveAlertsAll(tbl) == 1..Len(tbl)

\* SELECT ... FROM error_alerts WHERE acknowledged = FALSE
ActiveAlerts(tbl) == {i \in 1..Len(tbl) : ~tbl[i].acknowledged}

\* get_active_alerts(): `touched` carries the ids returned
GetActiveAlerts ==
    /\ last' = Result("get_active_alerts", "", "", FALSE, TRUE, 0, "not_called",
                      ActiveAlerts(error_alerts), <<>>)
    /\ UNCHANGED <<now, errorVars, analyticsVars, auditVars, callVars, consentVars, keyVars,
                   dataVars>>

-----------------------------------------------------------------------------
(* security.py: the audit logger *)

\* the level names security_config.json may give audit_log_level: getattr(logging,
\* name) must be a level for the constructor to succeed
AuditLevels == {"DEBUG", "INFO", "WARNING", "ERROR", "CRITICAL"}

\* logging's numeric levels
LevelRank(level) ==
    CASE level = "DEBUG" -> 10
      [] level = "INFO" -> 20
      [] level = "WARNING" -> 30
      [] level = "ERROR" -> 40
      [] OTHER -> 50

\* audit_handler.setLevel(logging.INFO)
HandlerLevel == "INFO"

\* the lines that reach logs/audit.log: a record passes the logger when its level
\* is at least the configured level, and the file handler when it is at least
\* the handler's.  With the default level every line of LogAccess passes.
Emitted(lines) ==
    SelectSeq(lines, LAMBDA l : /\ LevelRank(l.level) >= LevelRank(audit_log_level)
                                /\ LevelRank(l.level) >= LevelRank(HandlerLevel))

AuditActions == {"chat_query", "consent_recorded", "data_export"}

\* SecurityManager.log_access(user_id, action, resource, success)
LogAccessCall(u, action, success) ==
    /\ last' = Result("log_access", u, action, success, FALSE, 0, "not_called", {},
                      Emitted(<<LogAccess(action, success)>>))
    /\ UNCHANGED <<now, consentVars, keyVars, dataVars, analyticsVars, errorVars,
                   auditVars, callVars>>

-----------------------------------------------------------------------------
(* app.py: what the handlers do with an exception *)

\* error_analysis.db after one log_error call on the tables t
LogErrorTables(t, sev, comp, at) ==
    [errors |-> InsertError(t.errors, sev, comp, at),
     patterns |-> UpdateErrorPatterns(t.patterns, comp, at),
     alerts |-> CheckAlertConditions(t.alerts, InsertError(t.errors, sev, comp, at),
                                     sev, comp, at)]

\* POST /chat when answer_query raises: the inner except logs the error for
\* component chatbot and re-raises, the outer except logs it again for
\* chat_interface, writes the audit line and answers 500
ChatAnswerFails(q) ==
    /\ running
    /\ ValidateInput(q)
    /\ TRUE \in CheckConsentResults(user_consent, SessionUser, "data_processing", now)
    /\ Len(errors) + 2 <= MaxErrors
    /\ LET t0 == [errors |-> errors, patterns |-> error_patterns, alerts |-> error_alerts]
           t1 == LogErrorTables(t0, "high", "chatbot", now)
           t2 == LogErrorTables(t1, "high", "chat_interface", now)
       IN /\ errors' = t2.errors
          /\ error_patterns' = t2.patterns
          /\ error_alerts' = t2.alerts
    /\ last' = Result("chat", SessionUser, "", FALSE, FALSE, 500, "true", {},
                      <<LogAccess("chat_query", TRUE), LogAccess("chat_error", FALSE)>>)
    /\ UNCHANGED <<now, analyticsVars, auditVars, callVars, consentVars, keyVars, dataVars>>

\* the handlers of /privacy/*
PrivacyOps == {"record_consent", "withdraw_consent", "export_user_data",
               "delete_user_data", "anonymize_user_data"}

\* where the exception is raised: in the manager's database access (the manager
\* catches it, writes an audit line and returns its failure value) or in the
\* handler itself (its except branch answers 500)
FailurePoints == {"manager", "handler"}

\* the status the handler answers with when its manager reports the failure:
\* export and delete return the manager's error object with status 200
PrivacyFailureStatus(op, where) ==
    IF where = "manager" /\ op \in {"export_user_data", "delete_user_data"}
    THEN 200 ELSE 500

\* the audit action each manager writes in its except branch
ManagerErrorAction(op) ==
    CASE op = "record_consent" -> "consent_error"
      [] op = "withdraw_consent" -> "consent_withdrawal_error"
      [] op = "export_user_data" -> "data_export_error"
      [] op = "delete_user_data" -> "data_deletion_error"
      [] OTHER -> "data_anonymization_error"

\* a /privacy/* request during which an exception is raised: no handler and no
\* manager calls log_error
PrivacyRequestFails(op, where) ==
    /\ running
    /\ last' = Result(op, SessionUser, "", FALSE, FALSE, PrivacyFailureStatus(op, where),
                      "not_called", {},
                      IF where = "manager" THEN <<LogAccess(ManagerErrorAction(op), FALSE)>>
                      ELSE <<>>)
    /\ UNCHANGED <<now, errorVars, analyticsVars, auditVars, callVars, consentVars, keyVars,
                   dataVars>>

-----------------------------------------------------------------------------
\* the stores as they are before the process starts
InitConfigured(consent, rows, level) ==
    /\ now = 0
    /\ user_consent = consent
    /\ queries = rows
    /\ next_id = Len(rows) + 1
    /\ key_files = <<>>
    /\ key_rotation_days = DefaultKeyRotationDays
    /\ current_key = NoKey
    /\ key_rotation_date = NoDate
    /\ cipher = NoKey
    /\ running = FALSE
    /\ warnings = 0
    /\ errors = <<>>
    /\ error_alerts = <<>>
    /\ error_patterns = [c \in Components |-> NoPattern]
    /\ audit_log_level = level
    /\ calls = [c \in Callers |-> Idle]
    /\ last = NoOp

\* without a security_config.json the audit logger has the default level
InitStores(consent, rows) == InitConfigured(consent, rows, "INFO")

InitWith(consent) == InitStores(consent, <<>>)

\* a fresh installation: empty stores, no key, process down
Init == InitWith(<<>>)

\* a fresh installation in which the session user has granted data_processing
InitGranted == InitWith(InsertConsent(<<>>, SessionUser, "data_processing", TRUE, 0))

NextConsent ==
    \/ Tick
    \/ \E u \in Users, t \in ConsentTypes, g \in BOOLEAN : RecordConsent(u, t, g)
    \/ \E u \in Users, t \in ConsentTypes, r \in Reasons : WithdrawConsent(u, t, r)
    \/ \E u \in Users, t \in ConsentTypes : CheckConsent(u, t)
    \/ \E u \in Users, r \in Reasons : DeleteUserData(u, r)

SpecConsent == Init /\ [][NextConsent]_vars

\* the key store, rotation and the stored records, under a standing consent
KeyChatInputs == {<<"my", "SSN">>}

NextKeysWith(ios, rios) ==
    \/ Tick
    \/ \E d \in KeyRotationChoices, io \in ios : StartApp(d, io)
    \/ StopApp
    \/ \E io \in rios : RotateKeyIfNeeded(io)
    \/ \E q \in KeyChatInputs : Chat(q, TRUE)
    \/ AnonymizeUserData

\* with I/O failures of the key store and of the database
NextKeys == NextKeysWith(IoOutcomes, RotationIoOutcomes)

SpecKeys == InitGranted /\ [][NextKeys]_vars

\* without any I/O failure
NextKeysNoFault == NextKeysWith({"ok"}, {"ok"})

SpecKeysNoFault == InitGranted /\ [][NextKeysNoFault]_vars

\* without I/O failure, the process ending during a rotation
NextInterrupt ==
    \/ NextKeysNoFault
    \/ \E k \in 1..MaxRows : RotateKeyInterrupted(k)

SpecInterrupt == InitGranted /\ [][NextInterrupt]_vars

\* rotations called by two threads of a process that stays up
NextRace ==
    \/ Tick
    \/ \E d \in KeyRotationChoices : StartApp(d, "ok")
    \/ StopApp
    \/ \E q \in KeyChatInputs : Chat(q, TRUE)
    \/ \E c \in Callers : RotateStore(c)
    \/ \E c \in Callers : RotateRead(c)
    \/ \E c \in Callers : RotateWrite(c)
    \/ \E c \in Callers : RotateFinish(c)

SpecRace == InitGranted /\ [][NextRace]_vars

\* log_error called by two threads
TallySeverities == {"high"}

NextTally ==
    \/ Tick
    \/ \E c \in Callers, sev \in TallySeverities, comp \in Components :
            LogErrorInsert(c, sev, comp)
    \/ \E c \in Callers : LogErrorReadPattern(c)
    \/ \E c \in Callers : LogErrorWritePattern(c)

SpecTally == Init /\ [][NextTally]_vars

\* deletion requests, with failures of the two databases
NextErase ==
    \/ Tick
    \/ StartApp(DefaultKeyRotationDays, "ok")
    \/ \E q \in KeyChatInputs : Chat(q, TRUE)
    \/ \E t \in ConsentTypes, g \in BOOLEAN : PutConsent(t, g)
    \/ \E r \in Reasons : PostDelete(r)
    \/ \E r \in Reasons, io \in DeleteFailures : PostDeleteFails(r, io)

SpecErase == InitGranted /\ [][NextErase]_vars

\* records written before the fields were encrypted (plain strings), one of
\* which begins with the token prefix
LegacyTexts == {<<"my", "SSN">>, <<Marker, "x">>}

LegacyRow(text) ==
    [id |-> 1, query |-> Plain(text), answer |-> Plain(<<"re">> \o text),
     timestamp |-> 0, user_id |-> SessionUser]

LegacyTables == {<<>>} \cup {<<LegacyRow(t)>> : t \in LegacyTexts}

\* an installation that may hold a record from before encryption
InitData ==
    \E rows \in LegacyTables :
        InitStores(InsertConsent(<<>>, SessionUser, "data_processing", TRUE, 0), rows)

\* the stored records: written, read by analytics, anonymized, purged, rotated
NextData ==
    \/ Tick
    \/ \E d \in KeyRotationChoices : StartApp(d, "ok")
    \/ StopApp
    \/ RotateKeyIfNeeded("ok")
    \/ \E q \in KeyChatInputs : Chat(q, TRUE)
    \/ AnonymizeUserData
    \/ LoadData
    \/ CheckDataRetention

SpecData == InitData /\ [][NextData]_vars

\* the operations that decrypt stored fields, on a store that may hold a
\* record from before encryption
NextLegacy ==
    \/ Tick
    \/ \E d \in KeyRotationChoices : StartApp(d, "ok")
    \/ StopApp
    \/ RotateKeyIfNeeded("ok")
    \/ \E q \in KeyChatInputs : Chat(q, TRUE)
    \/ ExportUserData
    \/ AnonymizeUserData

SpecLegacy == InitData /\ [][NextLegacy]_vars

\* the error log and its alerts
NextErrors ==
    \/ Tick
    \/ \E sev \in Severities, comp \in Components : LogError(sev, comp)

SpecErrors == Init /\ [][NextErrors]_vars

\* the error ledger: errors are logged (the store may fail), resolved, and their
\* alerts acknowledged and listed
LedgerSeverities == {"critical"}
ResolutionNotes == {"fixed", "duplicate"}
Operators == {"admin"}

LedgerLogError(sev, comp) == Len(errors) < MaxLedgerErrors /\ LogError(sev, comp)

LedgerLogErrorStoreFailure(sev, comp, io) ==
    Len(errors) < MaxLedgerErrors /\ LogErrorStoreFailure(sev, comp, io)

NextLedger ==
    \/ Tick
    \/ \E sev \in LedgerSeverities, comp \in Components : LedgerLogError(sev, comp)
    \/ \E sev \in LedgerSeverities, comp \in Components, io \in StoreFailures :
            LedgerLogErrorStoreFailure(sev, comp, io)
    \/ \E id \in 1..MaxLedgerErrors, notes \in ResolutionNotes, by \in Operators :
            ResolveError(id, notes, by)
    \/ \E id \in 1..MaxLedgerErrors, by \in Operators : AcknowledgeAlert(id, by)
    \/ GetActiveAlerts

SpecLedger == Init /\ [][NextLedger]_vars

\* the audit log under each accepted configuration
InitAudit == \E level \in AuditLevels : InitConfigured(<<>>, <<>>, level)

NextAudit ==
    \/ Tick
    \/ \E u \in Users, a \in AuditActions, success \in BOOLEAN : LogAccessCall(u, a, success)

SpecAudit == InitAudit /\ [][NextAudit]_vars

\* requests during which an exception is raised
NextFunnel ==
    \/ Tick
    \/ StartApp(DefaultKeyRotationDays, "ok")
    \/ \E q \in KeyChatInputs : Chat(q, TRUE)
    \/ \E q \in KeyChatInputs : ChatAnswerFails(q)
    \/ \E op \in PrivacyOps, where \in FailurePoints : PrivacyRequestFails(op, where)

SpecFunnel == InitGranted /\ [][NextFunnel]_vars

\* the request handlers and the consent gate, on a process that stays up
NextGate ==
    \/ Tick
    \/ StartApp(DefaultKeyRotationDays, "ok")
    \/ \E q \in ChatInputs, ok \in BOOLEAN : Chat(q, ok)
    \/ ExportUserData
    \/ AnonymizeUserData
    \/ \E t \in ConsentTypes, g \in BOOLEAN : PutConsent(t, g)
    \/ \E t \in ConsentTypes, r \in Reasons : DeleteConsent(t, r)
    \/ \E r \in Reasons : PostDelete(r)

SpecGate == Init /\ [][NextGate]_vars

-----------------------------------------------------------------------------
(* Claims about consent *)

MaxOf(S) == CHOOSE x \in S : \A y \in S : y <= x

\* the record of (u, t) that was recorded last
LastRecorded(tbl, u, t) == tbl[MaxOf(ConsentRows(tbl, u, t))]

Expired(r, at) == at - r.consent_timestamp > data_retention_days

\* C1: check_consent(u, t) returns true only if the consent record recorded last
\* for (u, t) is granted, not withdrawn and not older than the retention period;
\* it returns false when (u, t) has no record, when that record is withdrawn and
\* when it is older than the retention period.
C1_CheckConsentFollowsLastRecord ==
    last.op = "check_consent" =>
        IF ConsentRows(user_consent, last.user, last.ctype) = {}
        THEN last.ret = FALSE
        ELSE LET r == LastRecorded(user_consent, last.user, last.ctype) IN
             /\ last.ret = TRUE =>
                    /\ r.consent_given
                    /\ r.withdrawal_timestamp = NULL
                    /\ ~Expired(r, now)
             /\ (r.withdrawal_timestamp # NULL \/ Expired(r, now)) => last.ret = FALSE

\* C2: right after record_consent(u, t, granted = true) check_consent(u, t) is
\* true; once (u, t) is withdrawn, check_consent(u, t) is false as long as no new
\* granted decision is recorded (every granted record of (u, t) is withdrawn).
C2_GrantThenWithdraw ==
    /\ (last.op = "record_consent" /\ last.given /\ last.ret) =>
            CheckConsentResults(user_consent, last.user, last.ctype, now) = {TRUE}
    /\ \A u \in Users, t \in ConsentTypes :
            (/\ ConsentRows(user_consent, u, t) # {}
             /\ \A i \in ConsentRows(user_consent, u, t) :
                    user_consent[i].consent_given =>
                        user_consent[i].withdrawal_timestamp # NULL)
            => CheckConsentResults(user_consent, u, t, now) = {FALSE}

\* C14: withdraw_consent(u, t, reason) changes no consent record other than the
\* authoritative (most recent) record of (u, t): older records of (u, t), withdrawn
\* or not, and the records of other users and types stay as they are.
C14_WithdrawOnlyAuthoritative ==
    [][last'.op = "withdraw_consent" =>
          /\ Len(user_consent') = Len(user_consent)
          /\ \A i \in 1..Len(user_consent) :
                i \notin LatestConsentRows(user_consent, last'.user, last'.ctype) =>
                    user_consent'[i] = user_consent[i]]_vars

\* C15: a withdrawal timestamp and its reason, once set, are never changed or
\* cleared and the record is never removed, whatever operation follows; a
\* repeated withdraw_consent returns normally.
C15_WithdrawalIsTerminal ==
    [][/\ Len(user_consent') >= Len(user_consent)
       /\ \A i \in 1..Len(user_consent) :
             user_consent[i].withdrawal_timestamp # NULL =>
                 /\ user_consent'[i].withdrawal_timestamp
                        = user_consent[i].withdrawal_timestamp
                 /\ user_consent'[i].withdrawal_reason = user_consent[i].withdrawal_reason
       /\ last'.op = "withdraw_consent" => last'.ret]_vars

\* C15 witness: withdraw_consent has run on a pair that was withdrawn earlier
C15_Witness ==
    /\ last.op = "withdraw_consent"
    /\ last.ret
    /\ \E i \in ConsentRows(user_consent, last.user, last.ctype) :
          /\ user_consent[i].withdrawal_timestamp # NULL
          /\ user_consent[i].withdrawal_timestamp < now

\* C16: after delete_user_data(u) has succeeded no interaction record of u is
\* left, the consent records of u are all still there and all withdrawn, so that
\* check_consent(u, t) is false for every t, and the result lists the retained
\* consent records under retention_exceptions.
C16_DeleteKeepsConsentWithdrawn ==
    [][(last'.op = "delete_user_data" /\ last'.ret) =>
          /\ RowIdsOf(queries', last'.user) = {}
          /\ last'.touched = RowIdsOf(queries, last'.user)
          /\ Len(user_consent') = Len(user_consent)
          /\ \A i \in 1..Len(user_consent) :
                /\ user_consent'[i].user_id = user_consent[i].user_id
                /\ user_consent'[i].consent_type = user_consent[i].consent_type
                /\ user_consent'[i].user_id = last'.user =>
                        user_consent'[i].withdrawal_timestamp # NULL
          /\ \A t \in ConsentTypes :
                CheckConsentResults(user_consent', last'.user, t, now') = {FALSE}
          /\ DeleteReport(queries, last'.user).success
          /\ DeleteReport(queries, last'.user).retention_exceptions # <<>>]_vars

\* C16 witness: delete_user_data has removed records of a user who has consent
\* records
C16_Witness ==
    /\ last.op = "delete_user_data"
    /\ last.ret
    /\ last.touched # {}
    /\ \E i \in 1..Len(user_consent) : user_consent[i].user_id = last.user

-----------------------------------------------------------------------------
(* Claims about the consent gate, the key store and the stored records *)

Logged(line) == \E i \in 1..Len(last.logged) : last.logged[i] = line

Fields(row) == {row.query, row.answer}

RowDecryptable(k, row) == Decryptable(k, row.query) /\ Decryptable(k, row.answer)

\* the most recently created persisted key whose expires_at is not before `at`
\* (strict = FALSE) or later than `at` (strict = TRUE); NoKey when there is none
NewestUnexpired(files, at, strict) ==
    LET ok == {i \in 1..Len(files) :
                  IF strict THEN files[i].expires_at > at ELSE files[i].expires_at >= at}
    IN IF ok = {} THEN NoKey ELSE MaxOf(ok)

\* C3: a chat, export or anonymization request that is refused by the consent
\* gate answers 403, and a request decrypts, rewrites or adds stored records of the
\* user only if check_consent was called in it and returned true.
C3_ConsentGate ==
    last.op \in {"chat", "export_user_data", "anonymize_user_data"} =>
        /\ last.gate = "false" => last.status = 403
        /\ last.touched # {} => last.gate = "true"

\* C4: while the application runs, every stored query and answer field is either
\* a token under the active key or legacy plaintext.
C4_FieldsUnderActiveKey ==
    running =>
        \A i \in 1..Len(queries) : \A v \in Fields(queries[i]) :
            v.key = NoKey \/ v.key = current_key

C6_FailedRotationLeavesValidState ==
    (/\ last.op = "rotate_key_if_needed"
     /\ ~last.ret
     /\ Logged(AuditLine("ERROR", "Key rotation failed"))) =>
        /\ current_key # NoKey
        /\ \A i \in 1..Len(queries) :
              RowDecryptable(current_key, queries[i]) =>
                  RowDecryptable(LoadCurrentKey(key_files, now, "ok").key, queries[i])

\* C7: when a freshly generated key becomes the active key in place of an
\* expired one, no stored field is left under the expired key: the records have
\* been re-encrypted.
C7_ExpiredKeyReplacedByRotation ==
    [][(/\ key_files # <<>>
        /\ now > key_files[Len(key_files)].expires_at
        /\ Len(key_files') > Len(key_files)
        /\ current_key' = Len(key_files')) =>
          \A i \in 1..Len(queries') : \A v \in Fields(queries'[i]) :
              v.key # Len(key_files)]_vars

\* C8: when the key store is read without an I/O error at start, the key loaded
\* is the most recently created unexpired persisted key, and no key is loaded
\* (a new one is generated) only when no persisted key is unexpired.  A key whose
\* expires_at equals now is accepted as either.
C8_LoadSelectsNewestUnexpired ==
    [][(/\ last'.op = "init_app"
        /\ running'
        /\ \A i \in 1..Len(last'.logged) : last'.logged[i].level # "ERROR") =>
          \/ current_key' = NewestUnexpired(key_files, now, TRUE)
          \/ current_key' = NewestUnexpired(key_files, now, FALSE)
          \/ /\ NewestUnexpired(key_files, now, TRUE) = NoKey
             /\ current_key' = Len(key_files) + 1]_vars

\* C9: an I/O failure of the key store during initialization is fatal (the
\* application does not come up), a running application holds a key, and a
\* record written by chat is never stored unencrypted.
C9_KeyStoreFailureIsFatal ==
    /\ (last.op = "init_app" /\ Logged(AuditLine("ERROR", "Error loading encryption key")))
            => ~running
    /\ (last.op = "init_app" /\ ~last.ret) => ~running
    /\ running => current_key # NoKey /\ cipher # NoKey
    /\ (last.op = "chat" /\ last.status = 200) =>
            \A i \in 1..Len(queries) :
                queries[i].id \in last.touched =>
                    \A v \in Fields(queries[i]) : v.key # NoKey

\* C10: while the application runs, the key the request path encrypts with, the
\* key the security manager holds and the key a fresh load of the key store
\* selects are one and the same key.
C10_OneActiveKey ==
    running =>
        /\ current_key # NoKey
        /\ cipher = current_key
        /\ LoadCurrentKey(key_files, now, "ok").key = current_key

-----------------------------------------------------------------------------
(* Claims about the stored records: round trip, analytics, anonymization, purge *)

C12_UnmarkedUnchanged ==
    /\ \A i \in 1..Len(queries) : \A v \in Fields(queries[i]) :
          ~Marked(v) =>
              SafeDecrypt(current_key, v) = [value |-> v.text, failed |-> FALSE]
    /\ last.op = "load_data" =>
          \A i \in 1..Len(queries) :
              (\A v \in Fields(queries[i]) : ~Marked(v)) =>
                  queries[i].id \notin last.touched

\* C12 witness: load_data has read a record that holds a value without the prefix
C12_Witness ==
    /\ last.op = "load_data"
    /\ \E i \in 1..Len(queries) : \E v \in Fields(queries[i]) : ~Marked(v)

\* C13: a value that carries the prefix and does not decrypt under the engine's
\* key reads as the DECRYPTION_ERROR sentinel, and a process prints at most one
\* warning for such failures, however many records fail and however often the
\* data is loaded.
C13_OneWarningPerProcess ==
    /\ \A i \in 1..Len(queries) : \A v \in Fields(queries[i]) :
          (Marked(v) /\ ~Decryptable(current_key, v)) =>
              SafeDecrypt(current_key, v).value = DecryptionError
    /\ warnings <= 1

\* C17: after anonymize_data(u) has returned true no record is owned by u, and
\* every record it rewrote is owned by the sentinel identity and decrypts to
\* scrubbed content.
C17_AnonymizeLeavesNoRecordOfUser ==
    (last.op = "anonymize_user_data" /\ last.ret) =>
        /\ \A i \in 1..Len(queries) : queries[i].user_id # last.user
        /\ \A i \in 1..Len(queries) :
              queries[i].id \in last.touched =>
                  /\ queries[i].user_id = AnonymousOwner
                  /\ RowDecryptable(current_key, queries[i])
                  /\ \A v \in Fields(queries[i]) : Scrub(v.text) = v.text

\* C18: check_data_retention deletes exactly the records older than now minus the
\* retention period, keeps the others in place and returns the number deleted;
\* called again right after, it deletes nothing and returns 0.  The purge at
\* application start leaves no record older than the cutoff.
C18_RetentionPurge ==
    [][/\ last'.op = "check_data_retention" =>
            /\ queries' = SelectSeq(queries,
                    LAMBDA row : row.timestamp >= now - config_data_retention_days)
            /\ last'.status = Len(queries) - Len(queries')
            /\ ExpiredCount(queries', now') = 0
            /\ last.op = "check_data_retention" =>
                    (last'.status = 0 /\ queries' = queries)
       /\ (last'.op = "init_app" /\ last'.ret) =>
            queries' = SelectSeq(queries,
                    LAMBDA row : row.timestamp >= now - config_data_retention_days)]_vars

\* C18 witness: a purge has deleted a record and reported it
C18_Witness ==
    /\ last.op = "check_data_retention"
    /\ last.status > 0
    /\ last.touched # {}

-----------------------------------------------------------------------------
(* Claims about the error log and its alerts *)

\* the events of one severity within the trailing hour, of any component
\* (comp = "") or of one component
EventsInWindow(tbl, sev, comp, at) ==
    Cardinality({i \in 1..Len(tbl) :
        /\ tbl[i].severity = sev
        /\ comp # "" => tbl[i].component = comp
        /\ tbl[i].timestamp > at - AlertWindow})

\* C19: a log_error call creates at most one Alert, and for a severity other than
\* critical (which alerts on every call) a call that takes the errors of one
\* severity and component within the trailing hour above the threshold, the 6th
\* high error and later, creates none.
C19_OneAlertPerThreshold ==
    [][last'.op = "log_error" =>
          LET e == errors'[Len(errors')]
              n == EventsInWindow(errors', e.severity, e.component, now')
          IN /\ Len(error_alerts') <= Len(error_alerts) + 1
             /\ (e.severity # "critical" /\ n > AlertThreshold(e.severity)) =>
                    error_alerts' = error_alerts]_vars

\* C20: log_error writes the event and updates the pattern, and it creates an
\* Alert exactly when the events of the logged severity within the trailing hour,
\* the new one included, number at least the threshold of that severity; a
\* critical error always creates an Alert.
C20_AlertIffThresholdReached ==
    [][last'.op = "log_error" =>
          LET e == errors'[Len(errors')]
              n == EventsInWindow(errors', e.severity, "", now')
          IN /\ Len(errors') = Len(errors) + 1
             /\ e.timestamp = now'
             /\ error_patterns'[e.component].occurrence_count
                    = error_patterns[e.component].occurrence_count + 1
             /\ n >= AlertThreshold(e.severity) =>
                    Len(error_alerts') = Len(error_alerts) + 1
             /\ n < AlertThreshold(e.severity) => error_alerts' = error_alerts
             /\ e.severity = "critical" =>
                    Len(error_alerts') = Len(error_alerts) + 1]_vars

\* C21: across log_error calls and every other operation, the occurrence_count
\* of a pattern never decreases and its last_seen never moves backwards; a
\* log_error call whose pattern update succeeds counts one more occurrence.
C21_PatternMonotone ==
    [][/\ \A c \in Components :
            /\ error_patterns'[c].occurrence_count
                    >= error_patterns[c].occurrence_count
            /\ error_patterns[c].last_seen # NULL =>
                    error_patterns'[c].last_seen >= error_patterns[c].last_seen
       /\ (last'.op = "log_error"
                /\ last'.logged = <<AuditLine("ERROR", "Error logged")>>) =>
            LET c == errors'[Len(errors')].component IN
            /\ error_patterns'[c].occurrence_count
                    = error_patterns[c].occurrence_count + 1
            /\ error_patterns'[c].last_seen = now']_vars

\* C21 witness: a pattern has been seen again at a later time
C21_Witness ==
    \E c \in Components :
        /\ error_patterns[c].occurrence_count >= 2
        /\ error_patterns[c].last_seen > error_patterns[c].first_seen

\* C22: a resolved ErrorEvent stays resolved and keeps its resolution_notes,
\* resolved_by and resolved_at under every later operation, a repeated
\* resolve_error included; the other fields of a written event never change.
C22_ResolveOnce ==
    [][/\ Len(errors') >= Len(errors)
       /\ \A i \in 1..Len(errors) :
             /\ errors'[i].severity = errors[i].severity
             /\ errors'[i].component = errors[i].component
             /\ errors'[i].timestamp = errors[i].timestamp
             /\ errors[i].resolved =>
                   /\ errors'[i].resolved
                   /\ errors'[i].resolution_notes = errors[i].resolution_notes
                   /\ errors'[i].resolved_by = errors[i].resolved_by
                   /\ errors'[i].resolved_at = errors[i].resolved_at]_vars

\* C23: an Alert is created unacknowledged, an acknowledged alert stays
\* acknowledged under every operation, and get_active_alerts returns exactly the
\* alerts that are not acknowledged.
C23_AcknowledgeOneWay ==
    [][/\ Len(error_alerts') >= Len(error_alerts)
       /\ \A i \in 1..Len(error_alerts') :
             IF i <= Len(error_alerts)
             THEN error_alerts[i].acknowledged => error_alerts'[i].acknowledged
             ELSE ~error_alerts'[i].acknowledged
       /\ last'.op = "get_active_alerts" =>
             /\ \A i \in 1..Len(error_alerts') :
                   error_alerts'[i].acknowledged => i \notin last'.touched
             /\ \A i \in 1..Len(error_alerts') :
                   ~error_alerts'[i].acknowledged => i \in last'.touched]_vars

\* C23 witness: the active alerts have been listed while one alert is acknowledged
\* and another is not
C23_Witness ==
    /\ last.op = "get_active_alerts"
    /\ \E i \in 1..Len(error_alerts) : error_alerts[i].acknowledged
    /\ last.touched # {}

\* C24: log_error returns an error id and does not raise, whether the store
\* fails while the event is written, the pattern is updated or the alert
\* condition is evaluated; it always leaves a local log entry, and the entry
\* names the failure when a step failed.
C24_LogErrorNeverRaises ==
    [][last'.op = "log_error" =>
          /\ last'.ret
          /\ last'.status # 500
          /\ last'.logged # <<>>
          /\ Len(errors') = Len(errors) =>
                last'.logged = <<AuditLine("CRITICAL", "Failed to log error")>>
          /\ (Len(errors') > Len(errors) /\ error_patterns' = error_patterns) =>
                last'.logged[1] = AuditLine("ERROR", "Failed to update error patterns")]_vars

\* C24 witness: log_error has returned although the event could not be written
C24_Witness ==
    /\ last.op = "log_error"
    /\ last.ret
    /\ Logged(AuditLine("CRITICAL", "Failed to log error"))

-----------------------------------------------------------------------------
(* Claims about the handlers *)

\* C25: a request that ends in an error response after an exception has passed
\* the exception to log_error: the error log has grown when the response is
\* produced.
C25_ExceptionsReachLogError ==
    [][(last'.op \in PrivacyOps \cup {"chat"} /\ last'.status = 500) =>
          Len(errors') > Len(errors)]_vars

-----------------------------------------------------------------------------
(* Claims about the audit log *)

\* C26: under every accepted configuration a log_access call appends exactly one
\* entry, at INFO level for a success and at WARNING level for a failure.
C26_EveryAccessRecorded ==
    last.op = "log_access" =>
        last.logged = <<AuditLine(IF last.given THEN "INFO" ELSE "WARNING", last.ctype)>>

-----------------------------------------------------------------------------
(* Claims about the chat handler *)

\* the text the answer service would be asked about is acceptable input
AcceptableText(text) ==
    /\ text # <<>>
    /\ \A i \in 1..Len(text) : text[i] \notin DangerousPatterns

\* C27: the chat handler validates, then checks consent, then calls the answer
\* service, then encrypts and persists: a request refused by validation answers
\* 400 before the consent check is made, a request refused by validation or by the
\* consent gate does not reach the answer service and writes no record, and a
\* record is written only for validated input, after the gate returned true, with
\* the answer of the answer service, both fields stored under the active cipher.
C27_ChatOrder ==
    [][last'.op = "chat" =>
          /\ last'.status \in {400, 403} =>
                /\ queries' = queries
                /\ last'.touched = {}
                /\ \A i \in 1..Len(last'.logged) :
                        last'.logged[i] # LogAccess("chat_query", TRUE)
          /\ last'.status = 400 => last'.gate = "not_called"
          /\ last'.status = 403 => last'.gate = "false"
          /\ last'.gate = "true" => last'.logged[1] = LogAccess("chat_query", TRUE)
          /\ last'.status = 200 =>
                /\ last'.gate = "true"
                /\ Len(queries') = Len(queries) + 1
                /\ LET row == queries'[Len(queries')] IN
                   /\ AcceptableText(row.query.text)
                   /\ row.answer.text = AnswerQuery(row.query.text)
                   /\ row.query.key = cipher
                   /\ row.answer.key = cipher]_vars

\* C27 witness: a request is refused by validation although the session user has
\* granted consent and records are already stored
C27_Witness ==
    /\ last.op = "chat"
    /\ last.status = 400
    /\ queries # <<>>
    /\ TRUE \in CheckConsentResults(user_consent, SessionUser, "data_processing", now)

-----------------------------------------------------------------------------
(* Claims about key rotation *)

\* C28: rotate_key_if_needed returns false and leaves the active key, the
\* persisted keys, the deadline and the stored records as they are when no
\* deadline is recorded or now is before the deadline; at or past the deadline it
\* starts a rotation, which returns true unless it fails on the key store or the
\* database; a rotation that returns true has persisted and activated a new key
\* and set the deadline to now plus the rotation period, which is later than now,
\* so that a repeated call at the same time does nothing.
C28_RotateOnlyWhenDue ==
    [][last'.op = "rotate_key_if_needed" =>
          /\ (key_rotation_date = NoDate \/ now < key_rotation_date) =>
                /\ ~last'.ret
                /\ last'.logged = <<>>
                /\ UNCHANGED <<current_key, key_files, key_rotation_date, queries>>
          /\ (key_rotation_date # NoDate /\ now >= key_rotation_date) =>
                /\ last'.logged # <<>>
                /\ last'.logged[1] = AuditLine("INFO", "Performing scheduled key rotation")
                /\ \/ last'.ret
                   \/ last'.logged[Len(last'.logged)] = AuditLine("ERROR", "Key rotation failed")
          /\ last'.ret =>
                /\ Len(key_files') = Len(key_files) + 1
                /\ current_key' = Len(key_files')
                /\ key_rotation_date' = now + key_rotation_days
                /\ now' < key_rotation_date']_vars

\* C28 witness: a call made at or past the deadline has rotated the key and set
\* the deadline to now plus the rotation period
C28_Witness ==
    /\ last.op = "rotate_key_if_needed"
    /\ last.ret
    /\ current_key = Len(key_files)
    /\ key_rotation_date = now + key_rotation_days
    /\ ~RotationDue(key_rotation_date, now)

\* C29: in a rotation that returns true, a row whose re-encryption failed is left
\* as it was, every other row is held under the new key with its content, the
\* new key is the active key, and the call reports how many rows were skipped.
C29_SkippedRowsCounted ==
    [][(last'.op = "rotate_key_if_needed" /\ last'.ret) =>
          /\ current_key' = Len(key_files')
          /\ Len(queries') = Len(queries)
          /\ \A i \in 1..Len(queries) :
                IF queries[i].id \in last'.touched
                THEN queries'[i] = queries[i]
                ELSE /\ RowDecryptable(current_key', queries'[i])
                     /\ queries'[i].query.text = queries[i].query.text
                     /\ queries'[i].answer.text = queries[i].answer.text
          /\ last'.status = Cardinality(last'.touched)]_vars

\* C30: each row is committed before the next is handled: a rotation never
\* leaves a row with one field under the new key and the other not, and when the
\* rotation is interrupted after some rows were updated, those rows are held
\* under the new key and the other rows are as they were.
C30_RowByRowCommit ==
    [][/\ last'.op \in {"rotate_key_if_needed", "rotate_key_interrupted"} =>
            \A i \in 1..Len(queries') :
                \/ queries'[i] = queries[i]
                \/ RowDecryptable(Len(key_files'), queries'[i])
       /\ last'.op = "rotate_key_interrupted" =>
            \A i \in 1..Len(queries) :
                IF queries[i].id \in last'.touched
                THEN /\ RowDecryptable(Len(key_files'), queries'[i])
                     /\ queries'[i].query.text = queries[i].query.text
                     /\ queries'[i].answer.text = queries[i].answer.text
                ELSE queries'[i] = queries[i]]_vars

-----------------------------------------------------------------------------
(* Claims about legacy plaintext and partial failure *)

\* the two fields of the row are stored strings without the token prefix
Unmarked(row) == \A v \in Fields(row) : ~Marked(v)

\* C31: export, anonymization and a rotation with a previous key treat a stored
\* value without the token prefix as plaintext: export returns its text,
\* anonymization scrubs it and reassigns the record, rotation stores it under the
\* new key.
C31_UnmarkedIsPlaintext ==
    [][/\ (last'.op = "export_user_data" /\ last'.status = 200) =>
            \A i \in 1..Len(queries) :
                (queries[i].user_id = last'.user /\ Unmarked(queries[i])) =>
                    queries[i].id \in last'.touched
       /\ (last'.op = "anonymize_user_data" /\ last'.ret) =>
            \A i \in 1..Len(queries) :
                (queries[i].user_id = last'.user /\ Unmarked(queries[i])) =>
                    /\ queries'[i].user_id = AnonymousOwner
                    /\ queries'[i].query.text = Scrub(queries[i].query.text)
                    /\ queries'[i].answer.text = Scrub(queries[i].answer.text)
       /\ (last'.op = "rotate_key_if_needed" /\ last'.ret /\ current_key # NoKey) =>
            \A i \in 1..Len(queries) :
                Unmarked(queries[i]) =>
                    /\ RowDecryptable(current_key', queries'[i])
                    /\ queries'[i].query.text = queries[i].query.text
                    /\ queries'[i].answer.text = queries[i].answer.text]_vars

\* C32: in an anonymize_data run that returns true, a record of the user whose
\* processing failed keeps its content and its owner, every other record of the
\* user is anonymized (scrubbed, under the manager's key, owned by the sentinel
\* identity), and the records of other owners are left alone.
C32_AnonymizeBestEffort ==
    [][(last'.op = "anonymize_user_data" /\ last'.ret) =>
          /\ Len(queries') = Len(queries)
          /\ \A i \in 1..Len(queries) :
                IF queries[i].user_id # last'.user
                THEN queries'[i] = queries[i]
                ELSE IF RowDecryptable(current_key, queries[i])
                THEN /\ queries'[i].user_id = AnonymousOwner
                     /\ queries'[i].query = Encrypt(current_key, Scrub(queries[i].query.text))
                     /\ queries'[i].answer = Encrypt(current_key, Scrub(queries[i].answer.text))
                     /\ queries[i].id \in last'.touched
                ELSE /\ queries'[i] = queries[i]
                     /\ queries[i].id \notin last'.touched]_vars

\* C32 witness: anonymize_data has anonymized one record of the user and left
\* another, which failed, with its owner
C32_Witness ==
    /\ last.op = "anonymize_user_data"
    /\ last.ret
    /\ \E i, j \in 1..Len(queries) :
          /\ queries[i].id \in last.touched
          /\ queries[i].user_id = AnonymousOwner
          /\ queries[j].user_id = last.user
          /\ ~RowDecryptable(current_key, queries[j])

-----------------------------------------------------------------------------
(* Claims about the order of consent decisions *)

\* C33: the decision recorded last for (user, type) decides: right after
\* record_consent(u, t, given) has returned, check_consent(u, t) returns given,
\* whatever was recorded for (u, t) before and however shortly before.
C33_LastDecisionDecides ==
    [][(last'.op = "record_consent" /\ last'.ret) =>
          CheckConsentResults(user_consent', last'.user, last'.ctype, now') = {last'.given}]_vars

-----------------------------------------------------------------------------
(* Claims about concurrent calls *)

\* C34: rotations called at the same time behave as if run one after the other:
\* when a rotation returns and no other is in progress, the manager's key is the
\* newest persisted key, and every record this rotation read and could decrypt
\* is decryptable under the manager's key.
C34_RotationsSerialized ==
    [][\A c \in Callers :
          (/\ calls[c].pc = "written"
           /\ last'.op = "rotate_key_if_needed"
           /\ \A d \in Callers : calls'[d].pc = "idle") =>
              /\ current_key' = Len(key_files')
              /\ \A i \in 1..Len(queries') :
                    (\E r \in FetchedRow(calls[c].rows, queries'[i].id) :
                        RowDecryptable(calls[c].old, r)) =>
                            RowDecryptable(current_key', queries'[i])]_vars

\* C35: under any interleaving of log_error calls the occurrence_count of a
\* pattern never decreases, and once no call is in progress it equals the number
\* of errors written with that fingerprint.
C35_CountMatchesEvents ==
    [][\A comp \in Components :
          /\ error_patterns'[comp].occurrence_count >= error_patterns[comp].occurrence_count
          /\ (\A c \in Callers : calls'[c].pc = "idle") =>
                error_patterns'[comp].occurrence_count =
                    Cardinality({i \in 1..Len(errors') : errors'[i].component = comp})]_vars

\* C36: a record written by a chat request after a rotation is decryptable under
\* the manager's key, and when a rotation returns with no other in progress, the
\* records inserted after it fetched the rows are decryptable under the manager's
\* key as well.
C36_ChatRowsUnderActiveKey ==
    [][/\ (/\ last'.op = "chat"
           /\ last'.status = 200
           /\ \A c \in Callers : calls[c].pc = "idle") =>
              RowDecryptable(current_key', queries'[Len(queries')])
       /\ \A c \in Callers :
            (/\ calls[c].pc = "written"
             /\ last'.op = "rotate_key_if_needed"
             /\ \A d \in Callers : calls'[d].pc = "idle") =>
                \A i \in 1..Len(queries') :
                    FetchedRow(calls[c].rows, queries'[i].id) = {} =>
                        RowDecryptable(current_key', queries'[i])]_vars

-----------------------------------------------------------------------------
(* Claims about deletion and the rotation deadline *)

\* C37: a delete_user_data call that returns success = false has deleted no
\* interaction record and changed no consent record.
C37_DeleteAllOrNothing ==
    [][(last'.op = "delete_user_data" /\ ~last'.ret) =>
          /\ queries' = queries
          /\ user_consent' = user_consent]_vars

\* C38: whenever the running manager holds a key, the rotation deadline it has
\* recorded is the expiry time of that key, so that rotate_key_if_needed rotates
\* once that key has expired.
C38_DeadlineOfActiveKey ==
    (running /\ current_key # NoKey) =>
        /\ key_rotation_date = key_files[current_key].expires_at
        /\ now >= key_files[current_key].expires_at =>
                RotationDue(key_rotation_date, now)

====
